---- MODULE Spec2Model ----
(***************************************************************************)
(* Model of context_engineering/simple_tool_selector.py: the metadata      *)
(* normalizer with its identity-keyed cache, the keyword fallback ranker   *)
(* and the select-with-fallback facade.                                    *)
(*                                                                         *)
(* Python text is a sequence of one-character strings, so that lower(),    *)
(* split(), f-string formatting and the substring test `in` are computed.  *)
(***************************************************************************)
EXTENDS Integers, Sequences, FiniteSets, TLC

VARIABLES owners, addr, created, tool_cache, extracted, call

vars == <<owners, addr, created, tool_cache, extracted, call>>

(***************************** bounds **************************************)
\* longest agent.tools list of the owner whose catalog is normalized and ranked
MaxEntries == 2
\* longest agent.tools list of the owner the facade is called on
MaxSelEntries == 1
\* max_tools is drawn from -MaxNegTools .. MaxPosTools
MaxPosTools == 3
MaxNegTools == 1
\* number of hash seeds, each giving one iteration order of the word set
MaxSeed == 3
\* longest list the judge answers with
MaxJudgeLen == 2
\* owners ever created, and addresses the runtime hands out, in the
\* multi-owner specifications
MaxOwners == 3
NumAddrs == 2

(***************************** Python values *******************************)
\* Python's None, distinct from every text
PyNone == <<"<None>">>

Min(a, b) == IF a <= b THEN a ELSE b
Max(a, b) == IF a >= b THEN a ELSE b

Range(s) == {s[i] : i \in 1..Len(s)}

\* dict.get(key, default)
Get(d, key, default) == IF key \in DOMAIN d THEN d[key] ELSE default

\* d1 | d2 : the right operand wins on shared keys
Merge(d1, d2) ==
    [k \in (DOMAIN d1) \cup (DOMAIN d2) |-> IF k \in DOMAIN d2 THEN d2[k] ELSE d1[k]]

\* str.lower() on one character
LowerChar(c) ==
    CASE c = "A" -> "a"
      [] c = "B" -> "b"
      [] c = "E" -> "e"
      [] c = "N" -> "n"
      [] c = "O" -> "o"
      [] OTHER -> c

\* str.lower()
Lower(s) == [i \in 1..Len(s) |-> LowerChar(s[i])]

IsSpace(c) == c = " "

\* str.split(): the maximal runs of non-whitespace characters, in order
RECURSIVE SplitFrom(_, _, _, _)
SplitFrom(s, i, cur, acc) ==
    IF i > Len(s)
    THEN IF cur = <<>> THEN acc ELSE Append(acc, cur)
    ELSE IF IsSpace(s[i])
         THEN SplitFrom(s, i + 1, <<>>, IF cur = <<>> THEN acc ELSE Append(acc, cur))
         ELSE SplitFrom(s, i + 1, Append(cur, s[i]), acc)

Split(s) == SplitFrom(s, 1, <<>>, <<>>)

\* `w in t` on texts: w occurs in t as a contiguous substring
IsSubstring(w, t) ==
    \E i \in 0..(Len(t) - Len(w)) : SubSeq(t, i + 1, i + Len(w)) = w

\* what an f-string replacement field prints: str(None) is "None", a text is itself
Format(v) == IF v = PyNone THEN <<"N", "o", "n", "e">> ELSE v

\* seq[:stop] of Python, negative stop counted from the end
SlicePrefix(s, stop) ==
    LET n == Len(s)
        k == IF stop >= 0 THEN Min(stop, n) ELSE Max(n + stop, 0)
    IN  SubSeq(s, 1, k)

(***************************** ToolSelection *******************************)
Raise == [kind |-> "raise"]
Return(v) == [kind |-> "return", value |-> v]

\* pydantic validation of ToolSelection: name must be a str, 0 <= relevance <= 10
ToolSelectionValid(name, toolkit, relevance) ==
    /\ name # PyNone
    /\ relevance >= 0
    /\ relevance <= 10

ToolSelection(name, toolkit, relevance) ==
    [name |-> name, toolkit |-> toolkit, relevance |-> relevance]

(***************************** _fallback_selection *************************)
\* the first occurrence of each element, in order
RECURSIVE Dedupe(_)
Dedupe(s) ==
    IF s = <<>> THEN <<>>
    ELSE LET front == Dedupe(SubSeq(s, 1, Len(s) - 1))
             x == s[Len(s)]
         IN  IF x \in Range(front) THEN front ELSE Append(front, x)

\* message_words = set(user_message.lower().split())
MessageWords(user_message) == Range(Split(Lower(user_message)))

\* The order in which `for word in message_words` visits the set. Python leaves it
\* to the string hash, seeded per process: seed picks a rotation and a direction.
IterOrder(user_message, seed) ==
    LET base == Dedupe(Split(Lower(user_message)))
        n == Len(base)
        rot == IF n = 0 THEN 0 ELSE (seed \div 2) % n
        turned == [i \in 1..n |-> base[((i - 1 + rot) % n) + 1]]
    IN  IF seed % 2 = 1 THEN [i \in 1..n |-> turned[n + 1 - i]] ELSE turned

\* tool_text = f"{tool.get('name', '')} {tool.get('docstring', '')}".lower()
ToolText(tool) ==
    Lower(Format(Get(tool, "name", <<>>)) \o <<" ">> \o Format(Get(tool, "docstring", <<>>)))

\* the inner loop: score += 1 for each word that is in tool_text
RECURSIVE ScoreLoop(_, _, _, _)
ScoreLoop(words, i, tool_text, score) ==
    IF i > Len(words) THEN score
    ELSE ScoreLoop(words, i + 1, tool_text,
                   IF IsSubstring(words[i], tool_text) THEN score + 1 ELSE score)

ScoreTool(tool, words) == ScoreLoop(words, 1, ToolText(tool), 0)

\* scored_tools after the outer loop; pos is the identity of the tool object
ScoredTools(available_tools, words) ==
    [p \in 1..Len(available_tools) |->
        [tool |-> available_tools[p], score |-> ScoreTool(available_tools[p], words), pos |-> p]]

\* a faulty variant of InsertByScore: a descending order got by reversing an ascending sort,
\* which turns the ties around
InsertBeforeTies(sorted, x) ==
    LET k == Cardinality({i \in 1..Len(sorted) : sorted[i].score > x.score})
    IN  SubSeq(sorted, 1, k) \o <<x>> \o SubSeq(sorted, k + 1, Len(sorted))

\* list.sort(key=score, reverse=True): stable, descending
InsertByScore(sorted, x) ==
    LET k == Cardinality({i \in 1..Len(sorted) : sorted[i].score >= x.score})
    IN  SubSeq(sorted, 1, k) \o <<x>> \o SubSeq(sorted, k + 1, Len(sorted))

RECURSIVE SortByScore(_)
SortByScore(s) ==
    IF s = <<>> THEN <<>>
    ELSE InsertByScore(SortByScore(SubSeq(s, 1, Len(s) - 1)), s[Len(s)])

\* a faulty variant of Selected: the tools that score nothing are dropped before the slice
SelectedPositiveOnly(user_message, available_tools, max_tools, seed) ==
    SlicePrefix(SelectSeq(SortByScore(ScoredTools(available_tools,
                                                  IterOrder(user_message, seed))),
                          LAMBDA x : x.score > 0),
                max_tools)

\* selected = scored_tools[:max_tools] after the sort
Selected(user_message, available_tools, max_tools, seed) ==
    SlicePrefix(SortByScore(ScoredTools(available_tools, IterOrder(user_message, seed))),
                max_tools)

\* relevance=min(score * 2, 10)
Relevance(score) == Min(score * 2, 10)

\* the ToolSelection built for one selected (tool, score)
SelectionOf(x) ==
    ToolSelection(Get(x.tool, "name", <<"u", "n", "k", "n", "o", "w", "n">>),
                  Get(x.tool, "toolkit", <<"d", "e", "f", "a", "u", "l", "t">>),
                  Relevance(x.score))

\* _fallback_selection: the list of ToolSelection, or the validation error of one
FallbackSelection(user_message, available_tools, max_tools, seed) ==
    LET selected == Selected(user_message, available_tools, max_tools, seed)
        built == [i \in 1..Len(selected) |-> SelectionOf(selected[i])]
    IN  IF \A i \in 1..Len(built) :
              ToolSelectionValid(built[i].name, built[i].toolkit, built[i].relevance)
        THEN Return(built)
        ELSE Raise

(***************************** tool entries ********************************)
\* An entry of agent.tools is described by the classes it is an instance of
\* (MultiMCPTools is a subclass of Toolkit) and by the attributes the code reads.
CallableEntry(name, doc) ==
    [types |-> {"Callable"}, name |-> name, doc |-> doc,
     params |-> <<"x">>, sig |-> <<"(", "x", ")">>]

FunctionEntry(name, description) ==
    [types |-> {"Function"}, name |-> name, description |-> description]

ToolkitEntry(name, tools) ==
    [types |-> {"Toolkit"}, name |-> name, tools |-> tools]

MCPEntry(functions) ==
    [types |-> {"MultiMCPTools", "Toolkit"}, name |-> <<"m", "c", "p">>, tools |-> <<>>,
     functions |-> functions]

UnknownEntry == [types |-> {}]

IsInstance(tool, class) == class \in tool.types

\* _get_function_metadata: inspect.getdoc gives None for a callable without docstring
GetFunctionMetadata(func) ==
    [name |-> func.name,
     docstring |-> func.doc,
     parameters |-> [i \in 1..Len(func.params) |->
                        [name |-> func.params[i], annotation |-> PyNone,
                         default |-> PyNone, kind |-> "POSITIONAL_OR_KEYWORD"]],
     signature |-> func.sig,
     full_signature |-> func.name \o func.sig]

\* Function.to_dict(): name and parameters, and the description when it is set
FunctionToDict(fn) ==
    IF fn.description = PyNone
    THEN [name |-> fn.name, parameters |-> <<>>]
    ELSE [name |-> fn.name, description |-> fn.description, parameters |-> <<>>]

\* a faulty variant of EntryMetadata: Toolkit is tested before its subclass MultiMCPTools
EntryMetadataToolkitFirst(tool) ==
    IF IsInstance(tool, "Toolkit")
    THEN [i \in 1..Len(tool.tools) |->
             Merge(GetFunctionMetadata(tool.tools[i]), [toolkit |-> tool.name])]
    ELSE IF IsInstance(tool, "MultiMCPTools")
    THEN [i \in 1..Len(tool.functions) |->
             Merge(FunctionToDict(tool.functions[i]), [toolkit |-> <<"M", "C", "P">>])]
    ELSE IF IsInstance(tool, "Function")
    THEN <<Merge(FunctionToDict(tool), [toolkit |-> <<"d", "e", "f", "a", "u", "l", "t">>])>>
    ELSE IF IsInstance(tool, "Callable")
    THEN <<Merge(GetFunctionMetadata(tool), [toolkit |-> <<"d", "e", "f", "a", "u", "l", "t">>])>>
    ELSE <<>>

\* the records one entry of agent.tools contributes, by the isinstance chain
EntryMetadata(tool) ==
    IF IsInstance(tool, "MultiMCPTools")
    THEN [i \in 1..Len(tool.functions) |->
             Merge(FunctionToDict(tool.functions[i]), [toolkit |-> <<"M", "C", "P">>])]
    ELSE IF IsInstance(tool, "Toolkit")
    THEN [i \in 1..Len(tool.tools) |->
             Merge(GetFunctionMetadata(tool.tools[i]), [toolkit |-> tool.name])]
    ELSE IF IsInstance(tool, "Function")
    THEN <<Merge(FunctionToDict(tool), [toolkit |-> <<"d", "e", "f", "a", "u", "l", "t">>])>>
    ELSE IF IsInstance(tool, "Callable")
    THEN <<Merge(GetFunctionMetadata(tool), [toolkit |-> <<"d", "e", "f", "a", "u", "l", "t">>])>>
    ELSE <<>>

\* the loop `for tool in agent.tools` of extract_tools_metadata
RECURSIVE ScanTools(_)
ScanTools(tools) ==
    IF tools = <<>> THEN <<>>
    ELSE ScanTools(SubSeq(tools, 1, Len(tools) - 1)) \o EntryMetadata(tools[Len(tools)])

\* cache_key = f"agent_{id(agent)}"
CacheKey(id) == <<"agent_", id>>

\* self._tool_cache[cache_key] = metadata
CachePut(cache, key, metadata) ==
    [k \in (DOMAIN cache) \cup {key} |-> IF k = key THEN metadata ELSE cache[k]]

\* the empty dict
EmptyDict == [k \in {} |-> <<>>]

\* a faulty variant of ExtractToolsMetadata: the scan's result is not stored
ExtractWithoutStore(cache, id, tools) ==
    LET cache_key == CacheKey(id)
    IN  IF cache_key \in DOMAIN cache
        THEN [ret |-> cache[cache_key], scanned |-> FALSE, cache |-> cache]
        ELSE [ret |-> ScanTools(tools), scanned |-> TRUE, cache |-> cache]

\* extract_tools_metadata(agent): what it returns, whether it scanned agent.tools,
\* and the cache it leaves
ExtractToolsMetadata(cache, id, tools) ==
    LET cache_key == CacheKey(id)
    IN  IF cache_key \in DOMAIN cache
        THEN [ret |-> cache[cache_key], scanned |-> FALSE, cache |-> cache]
        ELSE LET metadata == ScanTools(tools)
             IN  [ret |-> metadata, scanned |-> TRUE,
                  cache |-> CachePut(cache, cache_key, metadata)]

\* clear_cache()
ClearedCache(cache) == EmptyDict

(***************************** the judge ***********************************)
ReturnNone == [kind |-> "none"]

\* _select_with_llm: generate_content raises, or result.parsed is handed back as it
\* is: the parsed list, or None when the client could not parse the answer
SelectWithLlm(response) ==
    CASE response.kind = "error" -> Raise
      [] response.kind = "unparsed" -> ReturnNone
      [] OTHER -> Return(response.list)

\* select_relevant_tools: try the judge, except Exception fall back
SelectRelevantTools(user_message, available_tools, max_tools, response, seed) ==
    LET primary == SelectWithLlm(response)
    IN  IF primary.kind = "raise"
        THEN FallbackSelection(user_message, available_tools, max_tools, seed)
        ELSE primary

(***************************** inputs **************************************)
SeqsUpTo(S, n) == UNION {[1..k -> S] : k \in 0..n}

\* min_tools: int = 3
MinToolsDefault == 3

\* callables: without docstring, with one, with an empty one
CallAb == CallableEntry(<<"a", "b">>, PyNone)
CallNe == CallableEntry(<<"n", "e">>, <<"A", "b", " ", "o", "n", "e">>)
CallBa == CallableEntry(<<"b", "a">>, <<>>)
CallEn == CallableEntry(<<"e", "n">>, <<"n", "o">>)

\* self-describing functions, with and without a description
FnOb == FunctionEntry(<<"o", "b">>, <<"a", "b">>)
FnOn == FunctionEntry(<<"o", "n">>, PyNone)
FnZa == FunctionEntry(<<"z", "a">>, <<"E">>)

\* the entries agent.tools is built from: the four recognized shapes and an
\* unrecognized one
EntryPool ==
    {CallAb, CallNe, FnOb, ToolkitEntry(<<"t", "k">>, <<CallBa, CallEn>>),
     MCPEntry(<<FnOn, FnZa>>), UnknownEntry}

\* agent.tools of the owner whose catalog is normalized and ranked
OwnerPool == SeqsUpTo(EntryPool, MaxEntries)

\* agent.tools of the owner the facade is called on
SelectOwnerPool == SeqsUpTo(EntryPool, MaxSelEntries)

\* agent.tools of the owners of the multi-owner specifications
SmallOwnerPool == {<<>>, <<CallAb>>, <<FnOb, UnknownEntry>>}

\* user_message
MsgPool ==
    {<<>>, <<"a", "b">>, <<"A", "b", " ", " ", "a", "b">>, <<"n", "o", "n", "e">>, <<"a", " ", "b", " ", "a", "b", " ", "n", " ", "o", " ", "e">>, <<"z", "z">>, <<"b", " ", "n", "o">>}

\* max_tools
MaxToolsPool == (0 - MaxNegTools)..MaxPosTools

\* hash seeds
Seeds == 0..(MaxSeed - 1)

\* a name no pool entry has
GhostName == <<"z", "z">>

\* what the judge may answer: entries naming the first tool of the catalog or a
\* tool that is not in it
JudgeItems(available_tools) ==
    {ToolSelection(n, <<"d", "e", "f", "a", "u", "l", "t">>, 7) :
        n \in {GhostName} \cup {available_tools[i].name : i \in (1..Len(available_tools)) \cap {1}}}

\* the outcomes of generate_content: an exception, an answer the client could not
\* parse (parsed is None), or a parsed list
Responses(available_tools) ==
    {[kind |-> "error"], [kind |-> "unparsed"]}
    \cup {[kind |-> "parsed", list |-> l] :
             l \in SeqsUpTo(JudgeItems(available_tools), MaxJudgeLen)}

(***************************** state machine *******************************)
Idle == [op |-> "idle"]

LiveOwners == DOMAIN owners

FreeAddrs == (1..NumAddrs) \ {addr[h] : h \in LiveOwners}

\* a tool owner is constructed; the runtime places it at a free address, id(agent)
CreateOwner(tools) ==
    /\ call.op = "idle"
    /\ created < MaxOwners
    /\ \E a \in FreeAddrs :
          /\ owners' = [h \in LiveOwners \cup {created + 1} |->
                           IF h = created + 1 THEN tools ELSE owners[h]]
          /\ addr' = [h \in LiveOwners \cup {created + 1} |->
                           IF h = created + 1 THEN a ELSE addr[h]]
    /\ created' = created + 1
    /\ UNCHANGED <<tool_cache, extracted, call>>

\* a tool owner is garbage collected; its address becomes free again
DestroyOwner(h) ==
    /\ call.op = "idle"
    /\ owners' = [g \in LiveOwners \ {h} |-> owners[g]]
    /\ addr' = [g \in LiveOwners \ {h} |-> addr[g]]
    /\ UNCHANGED <<created, tool_cache, extracted, call>>

\* agent.tools is replaced by the host
MutateOwner(h, tools) ==
    /\ call.op = "idle"
    /\ tools # owners[h]
    /\ owners' = [owners EXCEPT ![h] = tools]
    /\ UNCHANGED <<addr, created, tool_cache, extracted, call>>

\* the history of extract calls since the last clear_cache: owner -> what its
\* first call returned
Noted(h, ret) ==
    IF h \in DOMAIN extracted THEN extracted
    ELSE [g \in (DOMAIN extracted) \cup {h} |-> IF g = h THEN ret ELSE extracted[g]]

\* selector.extract_tools_metadata(agent)
ExtractCall(h) ==
    /\ call.op = "idle"
    /\ LET r == ExtractToolsMetadata(tool_cache, addr[h], owners[h])
       IN  /\ tool_cache' = r.cache
           /\ extracted' = Noted(h, r.ret)
           /\ call' = [op |-> "extract", owner |-> h, tools |-> owners[h],
                       before |-> extracted, scanned |-> r.scanned, ret |-> r.ret]
    /\ UNCHANGED <<owners, addr, created>>

\* selector.clear_cache()
ClearCall ==
    /\ call.op = "idle"
    /\ tool_cache' = ClearedCache(tool_cache)
    /\ extracted' = EmptyDict
    /\ call' = [op |-> "clear"]
    /\ UNCHANGED <<owners, addr, created>>

\* SimpleToolSelector._fallback_selection(user_message, available_tools, max_tools)
\* on the catalog of owner h
FallbackCall(h, user_message, max_tools, seed) ==
    /\ call.op = "idle"
    /\ LET available_tools == ScanTools(owners[h])
       IN  call' = [op |-> "fallback", user_message |-> user_message,
                    available_tools |-> available_tools, max_tools |-> max_tools,
                    selected |-> Selected(user_message, available_tools, max_tools, seed),
                    ret |-> FallbackSelection(user_message, available_tools, max_tools, seed)]
    /\ UNCHANGED <<owners, addr, created, tool_cache, extracted>>

\* selector.select_relevant_tools(user_message, history, available_tools, max_tools)
\* on the catalog of owner h
SelectCall(h, user_message, max_tools, seed) ==
    /\ call.op = "idle"
    /\ LET available_tools == ScanTools(owners[h])
       IN  \E response \in Responses(available_tools) :
              /\ response.kind # "error" => seed = 0
              /\ call' = [op |-> "select", user_message |-> user_message,
                       available_tools |-> available_tools, max_tools |-> max_tools,
                       min_tools |-> MinToolsDefault, response |-> response,
                       ret |-> SelectRelevantTools(user_message, available_tools,
                                                   max_tools, response, seed)]
    /\ UNCHANGED <<owners, addr, created, tool_cache, extracted>>

\* selector.filter_agent_tools(agent, user_message, history, max_tools)
FilterCall(h, user_message, max_tools, seed) ==
    /\ call.op = "idle"
    /\ LET r == ExtractToolsMetadata(tool_cache, addr[h], owners[h])
       IN  /\ tool_cache' = r.cache
           /\ extracted' = Noted(h, r.ret)
           /\ \E response \in Responses(r.ret) :
                 /\ response.kind # "error" => seed = 0
                 /\ call' = [op |-> "filter", owner |-> h, user_message |-> user_message,
                          available_tools |-> r.ret, max_tools |-> max_tools,
                          min_tools |-> MinToolsDefault, response |-> response,
                          ret |-> SelectRelevantTools(user_message, r.ret, max_tools,
                                                      response, seed)]
    /\ UNCHANGED <<owners, addr, created>>

\* select_tools_for_query(agent, user_message, history, max_tools): a selector of its
\* own, constructed for this call with an empty cache, filters the agent's tools
QueryCall(h, user_message, max_tools, seed) ==
    /\ call.op = "idle"
    /\ LET r == ExtractToolsMetadata(EmptyDict, addr[h], owners[h])
       IN  \E response \in Responses(r.ret) :
              /\ response.kind # "error" => seed = 0
              /\ call' = [op |-> "query", owner |-> h, user_message |-> user_message,
                          available_tools |-> r.ret, max_tools |-> max_tools,
                          min_tools |-> MinToolsDefault, response |-> response,
                          ret |-> SelectRelevantTools(user_message, r.ret, max_tools,
                                                      response, seed)]
    /\ UNCHANGED <<owners, addr, created, tool_cache, extracted>>

\* the caller takes the result; the selector is ready for the next call
ReturnToCaller ==
    /\ call.op # "idle"
    /\ call' = Idle
    /\ UNCHANGED <<owners, addr, created, tool_cache, extracted>>

\* a fresh selector and one owner with the given agent.tools
InitWith(tools) ==
    /\ owners = [h \in {1} |-> tools]
    /\ addr = [h \in {1} |-> 1]
    /\ created = 1
    /\ tool_cache = EmptyDict
    /\ extracted = EmptyDict
    /\ call = Idle

\* the facade: select_relevant_tools and filter_agent_tools on one owner
Init == \E tools \in SelectOwnerPool : InitWith(tools)

Next ==
    \/ \E h \in LiveOwners : ExtractCall(h)
    \/ ClearCall
    \/ \E h \in LiveOwners, m \in MsgPool, k \in MaxToolsPool, seed \in Seeds :
          SelectCall(h, m, k, seed)
    \/ \E h \in LiveOwners, m \in MsgPool, k \in MaxToolsPool, seed \in Seeds :
          FilterCall(h, m, k, seed)
    \/ \E h \in LiveOwners, m \in MsgPool, k \in MaxToolsPool, seed \in Seeds :
          QueryCall(h, m, k, seed)
    \/ ReturnToCaller

Spec == Init /\ [][Next]_vars

\* the normalizer and the fallback ranker on one owner's catalog
InitCatalog == \E tools \in OwnerPool : InitWith(tools)

NextCatalog ==
    \/ \E h \in LiveOwners : ExtractCall(h)
    \/ ClearCall
    \/ \E h \in LiveOwners, m \in MsgPool, k \in MaxToolsPool, seed \in Seeds :
          FallbackCall(h, m, k, seed)
    \/ ReturnToCaller

SpecCatalog == InitCatalog /\ [][NextCatalog]_vars

\* no owner yet; owners are created, their tools replaced, and live on
InitCache ==
    /\ owners = EmptyDict
    /\ addr = EmptyDict
    /\ created = 0
    /\ tool_cache = EmptyDict
    /\ extracted = EmptyDict
    /\ call = Idle

NextCache ==
    \/ \E tools \in SmallOwnerPool : CreateOwner(tools)
    \/ \E h \in LiveOwners, tools \in SmallOwnerPool : MutateOwner(h, tools)
    \/ \E h \in LiveOwners : ExtractCall(h)
    \/ ClearCall
    \/ ReturnToCaller

SpecCache == InitCache /\ [][NextCache]_vars

\* owners are created and garbage collected
NextLife ==
    \/ \E tools \in SmallOwnerPool : CreateOwner(tools)
    \/ \E h \in LiveOwners : DestroyOwner(h)
    \/ \E h \in LiveOwners : ExtractCall(h)
    \/ ClearCall
    \/ ReturnToCaller

SpecLife == InitCache /\ [][NextLife]_vars

(***************************** claims **************************************)
FacadeCall == call.op \in {"select", "filter", "query"}

CatalogNames(available_tools) == {available_tools[i].name : i \in 1..Len(available_tools)}

\* C1: select_relevant_tools, and filter_agent_tools on top of it, returns a list and
\* never raises: the judge's list as it is when the judge call succeeds, and
\* _fallback_selection on the same message, catalog and max_tools when it raises.
C1_ListOrFallback ==
    FacadeCall =>
        /\ call.ret.kind = "return"
        /\ call.response.kind = "parsed" => call.ret.value = call.response.list
        /\ call.response.kind = "error" =>
              \A seed \in Seeds :
                  call.ret = FallbackSelection(call.user_message, call.available_tools,
                                               call.max_tools, seed)
        /\ call.op \in {"filter", "query"} =>
              call.available_tools = ScanTools(owners[call.owner])

\* C2: an answer of the judge that cannot be parsed into a list of ToolSelection
\* (parsed is None) is a ranking failure: select_relevant_tools falls back and never
\* returns an absent value.
C2_UnparsedFallsBack ==
    FacadeCall =>
        /\ call.ret.kind # "none"
        /\ call.response.kind = "unparsed" =>
              call.ret = FallbackSelection(call.user_message, call.available_tools,
                                           call.max_tools, 0)

\* C3: every entry select_relevant_tools returns names a tool of the catalog that was
\* passed in.
C3_NamesFromCatalog ==
    (FacadeCall /\ call.ret.kind = "return") =>
        \A i \in 1..Len(call.ret.value) :
            call.ret.value[i].name \in CatalogNames(call.available_tools)

\* C4: _fallback_selection returns without error at most max_tools entries (none when
\* max_tools is not positive), and the empty list for the empty catalog.
C4_AtMostMaxTools ==
    call.op = "fallback" =>
        /\ call.ret.kind = "return"
        /\ Len(call.ret.value) <= Max(call.max_tools, 0)
        /\ call.available_tools = <<>> => call.ret.value = <<>>

\* The raw score as the specification words it: the number of distinct lower-cased
\* words of the message that occur in the lower-cased "name docstring", an absent
\* docstring being the empty text.
TextOrEmpty(v) == IF v = PyNone THEN <<>> ELSE v

StatedText(tool) ==
    Lower(TextOrEmpty(Get(tool, "name", <<>>)) \o <<" ">>
          \o TextOrEmpty(Get(tool, "docstring", <<>>)))

StatedScore(user_message, tool) ==
    Cardinality({w \in MessageWords(user_message) : IsSubstring(w, StatedText(tool))})

\* C7: the relevance reported for a record is min(2 * s, 10), s the stated raw score,
\* also for a record whose docstring is absent or empty; it is an integer in 0..10.
C7_RelevanceIsStatedScore ==
    (call.op = "fallback" /\ call.ret.kind = "return") =>
        \A i \in 1..Len(call.ret.value) :
            /\ call.ret.value[i].relevance \in 0..10
            /\ call.ret.value[i].relevance =
                  Min(2 * StatedScore(call.user_message, call.selected[i].tool), 10)

\* C8: the list is ordered by raw score descending, tools of equal score in catalog
\* order, and the result is the same whatever order the word set is iterated in.
C8_StableOrder ==
    call.op = "fallback" =>
        /\ \A i, j \in 1..Len(call.selected) :
              i < j =>
                  \/ call.selected[i].score > call.selected[j].score
                  \/ /\ call.selected[i].score = call.selected[j].score
                     /\ call.selected[i].pos < call.selected[j].pos
        /\ \A seed \in Seeds :
              call.ret = FallbackSelection(call.user_message, call.available_tools,
                                           call.max_tools, seed)

\* C8 witness: a returned list with a tie kept in catalog order behind a tool that
\* comes later in the catalog and scores higher.
C8_Witness ==
    /\ call.op = "fallback"
    /\ Len(call.selected) >= 3
    /\ call.selected[1].score > call.selected[2].score
    /\ call.selected[1].pos > call.selected[2].pos
    /\ call.selected[2].score = call.selected[3].score
    /\ Cardinality(MessageWords(call.user_message)) >= 2

PositiveCount(c) == Cardinality({i \in 1..Len(c.selected) : c.selected[i].score > 0})

ScoreAt(c, p) == ScoreTool(c.available_tools[p], IterOrder(c.user_message, 0))

\* C9 as stated, for the max_tools that are not negative: no more entries are
\* returned than tools score above zero.
C9_OnlyPositive ==
    (call.op = "fallback" /\ call.max_tools >= 0) =>
        Len(call.selected) <=
            Cardinality({p \in 1..Len(call.available_tools) : ScoreAt(call, p) > 0})

\* C9 amended: the slice [:max_tools] of the score-sorted catalog is returned, tools
\* of score zero included: min(max_tools, N) entries of N tools when max_tools >= 0,
\* max(N + max_tools, 0) when it is negative, none of the tools left out scoring
\* higher than a tool returned.
C9_SliceOfSorted ==
    call.op = "fallback" =>
        LET n == Len(call.available_tools)
            taken == {call.selected[i].pos : i \in 1..Len(call.selected)}
        IN  /\ call.ret.kind = "return"
            /\ Len(call.ret.value) = Len(call.selected)
            /\ Len(call.selected) =
                  IF call.max_tools >= 0 THEN Min(call.max_tools, n)
                  ELSE Max(n + call.max_tools, 0)
            /\ Cardinality(taken) = Len(call.selected)
            /\ \A p \in (1..n) \ taken : \A q \in taken : ScoreAt(call, p) <= ScoreAt(call, q)

\* C9 witness: fewer tools score above zero than max_tools, and a tool of score zero
\* is returned with relevance 0 behind one that scores.
C9_Witness ==
    /\ call.op = "fallback"
    /\ call.max_tools >= 3
    /\ Len(call.ret.value) >= 2
    /\ PositiveCount(call) = 1
    /\ call.ret.value[Len(call.ret.value)].relevance = 0

\* The tools of an owner as the specification counts them, with the label of their
\* shape: the functions of a grouped provider ("MCP"), the members of a toolkit (its
\* name), a self-describing function and a bare callable ("default").
StatedTools(entry) ==
    IF "MultiMCPTools" \in entry.types
    THEN [i \in 1..Len(entry.functions) |->
             [name |-> entry.functions[i].name, toolkit |-> <<"M", "C", "P">>]]
    ELSE IF "Toolkit" \in entry.types
    THEN [i \in 1..Len(entry.tools) |->
             [name |-> entry.tools[i].name, toolkit |-> entry.name]]
    ELSE IF entry.types # {}
    THEN <<[name |-> entry.name, toolkit |-> <<"d", "e", "f", "a", "u", "l", "t">>]>>
    ELSE <<>>

RECURSIVE StatedCatalog(_)
StatedCatalog(tools) ==
    IF tools = <<>> THEN <<>>
    ELSE StatedCatalog(SubSeq(tools, 1, Len(tools) - 1)) \o StatedTools(tools[Len(tools)])

DistinctNames(c) == \A i, j \in 1..Len(c) : i # j => c[i].name # c[j].name

\* C6: for an owner of N tools with pairwise distinct names, in any mix of the four
\* shapes and unrecognized entries, a scan returns exactly N records, the tools'
\* names in the owner's order, each with the label of its shape; an unrecognized
\* entry adds no record and takes none away.
C6_OneRecordPerTool ==
    (call.op = "extract" /\ call.scanned /\ DistinctNames(StatedCatalog(call.tools))) =>
        /\ Len(call.ret) = Len(StatedCatalog(call.tools))
        /\ \A i \in 1..Len(call.ret) :
              /\ call.ret[i].name = StatedCatalog(call.tools)[i].name
              /\ call.ret[i].toolkit = StatedCatalog(call.tools)[i].toolkit

\* C6 witness: a scan of an owner holding a grouped provider and an unrecognized
\* entry, giving the provider's records.
C6_Witness ==
    /\ call.op = "extract"
    /\ call.scanned
    /\ Len(call.tools) = 2
    /\ \E i \in 1..2 : call.tools[i].types = {}
    /\ \E i \in 1..2 : "MultiMCPTools" \in call.tools[i].types
    /\ Len(call.ret) = 2
    /\ DistinctNames(StatedCatalog(call.tools))

\* C5: the first extract_tools_metadata for an owner scans its tools; a later call
\* with no clear_cache in between returns what the first returned without scanning;
\* only clear_cache removes cached entries, those of all owners, and the first call
\* after it scans again.
C5_CacheUntilCleared ==
    /\ call.op = "extract" =>
          IF call.owner \in DOMAIN call.before
          THEN ~call.scanned /\ call.ret = call.before[call.owner]
          ELSE call.scanned /\ call.ret = ScanTools(call.tools)
    /\ DOMAIN tool_cache = {CacheKey(addr[h]) : h \in DOMAIN extracted}
    /\ \A h \in DOMAIN extracted : tool_cache[CacheKey(addr[h])] = extracted[h]
    /\ call.op = "clear" => tool_cache = EmptyDict

\* C5 witness: a call answered from the cache although the owner's tools have been
\* replaced since the first call, a second owner being cached too.
C5_Witness ==
    /\ call.op = "extract"
    /\ ~call.scanned
    /\ call.ret # ScanTools(call.tools)
    /\ Cardinality(DOMAIN tool_cache) = 2

\* C10: extract_tools_metadata(owner) returns the sequence built from that owner's
\* own tools, never one cached for another owner.
C10_OwnTools ==
    call.op = "extract" => call.ret = ScanTools(call.tools)

====
